---- MODULE Spec2Model ----
(***************************************************************************)
(* A model of the document chunker (src/core/chunker.py), of the lexical,  *)
(* semantic and hybrid retrievers (src/core/bm25_retriever.py,             *)
(* src/core/embedding_retriever.py, src/core/hybrid_retriever.py), of the  *)
(* metadata match (src/core/csv_loader.py) and of the API server with its  *)
(* quota middleware (src/api/main.py, src/api/middleware.py,               *)
(* src/api/routes.py, src/core/database.py).                               *)
(*                                                                         *)
(* Conventions.                                                            *)
(*  - A chunk object is identified by id(chunk); the ingestion pipeline    *)
(*    builds one dict per chunk, so the ids of a collection are pairwise   *)
(*    distinct.  The model uses the 0-based position as the id.            *)
(*  - A query is represented by what the two immutable indices compute for *)
(*    it: the vector BM25Okapi.get_scores returns and the neighbour order  *)
(*    of the FAISS index (nearest first).                                  *)
(*  - Fused scores are exact rationals alpha.num/alpha.den * 1/(60+r),     *)
(*    kept as integers scaled by alpha.den * RRFScale.                     *)
(*  - Python sequences are 0-based; TLA+ sequences are 1-based.  PyGet     *)
(*    does Python's indexing, negative indices included.                   *)
(*                                                                         *)
(* Specifications.                                                         *)
(*  - Spec: one caller of a built HybridRetriever, call after call.        *)
(*  - SpecChunker: calls of chunk_text and chunk_document.                 *)
(*  - SpecBuild: the constructors, then searches on what they built.       *)
(*  - SpecRepeat: Spec with a caller that keeps one earlier result list.   *)
(*  - SpecConcurrent: two threads calling one HybridRetriever, search      *)
(*    interleaved between its statements.                                  *)
(*  - SpecPersist: an EmbeddingRetriever saving and loading its index,     *)
(*    process after process.                                               *)
(*  - SpecIngest: load_csv_metadata and match_metadata_to_documents.       *)
(*  - SpecServer: the startup of the API server and two requests at a      *)
(*    time, through the quota middleware to their handlers.                *)
(***************************************************************************)
EXTENDS Integers, Sequences, FiniteSets, TLC

\* ------------------------------------------------------------------ bounds
MaxChunks == 3
MaxK == 3

\* Values BM25Okapi.get_scores may give a chunk (0 = no query term matches).
Scores == {0, 1, 2}

\* alpha as num/den: 0, 1/2 and 1.
Alphas == {<<0, 1>>, <<1, 2>>, <<1, 1>>}

\* ---------------------------------------------------------- Python helpers
Min(a, b) == IF a <= b THEN a ELSE b

\* seq[:k] for k >= 0
Take(seq, k) == SubSeq(seq, 1, Min(k, Len(seq)))

\* seq[idx], idx 0-based, a negative idx counting from the end
PyGet(seq, idx) == IF idx < 0 THEN seq[Len(seq) + idx + 1] ELSE seq[idx + 1]

\* range(n) as a sequence
Range(n) == [i \in 1..n |-> i - 1]

\* The permutations of range(n), as sequences.
Perms(n) ==
    {p \in [1..n -> 0..(n - 1)] : \A i, j \in 1..n : i # j => p[i] # p[j]}

RECURSIVE InsertDesc(_, _, _, _)
\* x placed behind every element whose key is >= key[x]: with the elements
\* inserted in their original order, equal keys keep that order.
InsertDesc(sorted, x, kx, keyOf) ==
    IF sorted = <<>> THEN <<x>>
    ELSE IF keyOf[Head(sorted)] >= kx
         THEN <<Head(sorted)>> \o InsertDesc(Tail(sorted), x, kx, keyOf)
         ELSE <<x>> \o sorted

RECURSIVE InsertDescUnstable(_, _, _, _)
InsertDescUnstable(sorted, x, kx, keyOf) ==
    IF sorted = <<>> THEN <<x>>
    ELSE IF keyOf[Head(sorted)] > kx
         THEN <<Head(sorted)>> \o InsertDescUnstable(Tail(sorted), x, kx, keyOf)
         ELSE <<x>> \o sorted

RECURSIVE SortFrom(_, _, _)
SortFrom(done, rest, keyOf) ==
    IF rest = <<>> THEN done
    ELSE SortFrom(InsertDesc(done, Head(rest), keyOf[Head(rest)], keyOf),
                  Tail(rest), keyOf)

RECURSIVE SortFromUnstable(_, _, _)
SortFromUnstable(done, rest, keyOf) ==
    IF rest = <<>> THEN done
    ELSE SortFromUnstable(
             InsertDescUnstable(done, Head(rest), keyOf[Head(rest)], keyOf),
             Tail(rest), keyOf)

RECURSIVE Reverse(_)
Reverse(seq) ==
    IF seq = <<>> THEN <<>> ELSE Append(Reverse(Tail(seq)), Head(seq))

\* A sort that forgets reverse=True: ascending, stable.
SortedForward(items, keyOf) ==
    Reverse(SortFromUnstable(<<>>, items, keyOf))

\* A sort that orders equal keys last-first (e.g. sort ascending and reverse).
SortedReverseUnstable(items, keyOf) == SortFromUnstable(<<>>, items, keyOf)

\* sorted(items, key=keyOf, reverse=True): descending, stable.
SortedReverse(items, keyOf) == SortFrom(<<>>, items, keyOf)

\* ------------------------------------------------------------------- state
VARIABLES
    retriever,          \* the retriever in service: "none" | "bm25" |
                        \* "embedding" | "hybrid"
    corpus_size,        \* self.bm25.corpus_size: the documents BM25 indexed
    ntotal,             \* self.index.ntotal: the vectors in the FAISS index
    chunks,             \* the chunk collection shared by the retrievers: ids
    pc,                 \* "idle" | "returned"
    op,                 \* the method that was called
    query,              \* its query
    top_k,              \* its top_k
    alpha,              \* search: alpha, <<num, den>>
    bm25_k,             \* search: bm25_k
    embedding_k,        \* search: embedding_k
    bm25_results,       \* search: the lexical result list
    embedding_results,  \* search: the semantic result list
    rrf_scores,         \* search: the fusion mapping, in insertion order
    threshold,          \* search_with_threshold: threshold
    result,             \* the returned list: [chunk, score] pairs, or chunks
    status,             \* "ok" | "AssertionError" | "ValueError" | "none"
    text,               \* chunk_text: the text, a sequence of characters
    chunk_size,         \* chunk_text: the token budget
    raw_chunks,         \* chunk_text: what _split_recursive returned
    document,           \* chunk_document: document
    first,              \* the caller's record of an earlier search call
    calls,              \* concurrent callers: the call of each thread
    frames,             \* concurrent callers: the locals of each call frame
    disk,               \* the saved index file: its ntotal, 0 when no file
    documents,          \* match_metadata_to_documents: documents
    metadata,           \* match_metadata_to_documents: metadata
    lifespan,           \* "on": the server runs lifespan before it serves;
                        \* "off": the application is served without it
    startup,            \* the position of lifespan
    quota_db,           \* app.state.quota_db is set
    _quota_db,          \* routes._quota_db is set
    _modes,             \* routes._modes is set
    tenants,            \* the tenants table: tenant_id -> row
    usage,              \* the usage table: tenant_id -> tokens by age
    requests            \* the requests in flight: their position and locals

vars == <<retriever, corpus_size, ntotal, chunks, pc, op, query, top_k,
          alpha, bm25_k, embedding_k,
          bm25_results, embedding_results, rrf_scores, threshold, result,
          status, text, chunk_size, raw_chunks, document, first,
          calls, frames, disk, documents, metadata, lifespan, startup,
          quota_db, _quota_db, _modes, tenants, usage, requests>>

\* The locals of HybridRetriever.search and those of chunk_text.
searchVars == <<query, top_k, alpha, bm25_k, embedding_k,
                bm25_results, embedding_results, rrf_scores, threshold>>
chunkerVars == <<text, chunk_size, raw_chunks, document>>

NoQuery == [scores |-> <<>>, neighbours |-> <<>>, tokens |-> 0]

\* The retriever object and its two indices.
indexVars == <<retriever, corpus_size, ntotal>>

\* What outlives the process and lies outside the retrievers and the
\* chunker.
ingestVars == <<documents, metadata>>
serverVars == <<lifespan, startup, quota_db, _quota_db, _modes, tenants,
                usage, requests>>
outerVars == <<disk, ingestVars, serverVars>>

\* No ingestion under way and no server process.
Offline ==
    /\ documents = <<>>
    /\ metadata = <<>>
    /\ lifespan = "off"
    /\ startup = "none"
    /\ quota_db = FALSE
    /\ _quota_db = FALSE
    /\ _modes = FALSE
    /\ tenants = <<>>
    /\ usage = <<>>
    /\ requests = <<>>

\* What a caller keeps of its calls.
historyVars == <<first>>

\* The calls of the concurrent callers.
threadVars == <<calls, frames>>

\* The threads that call one retriever at the same time.
Threads == {1, 2}

\* A thread that is in no call.
NoThreadCall ==
    [pc |-> "idle", op |-> "none", query |-> NoQuery, alpha |-> <<0, 1>>,
     threshold |-> 0, result |-> <<>>, raced |-> FALSE]

\* A frame no call is using.
NoFrame == [bm25_results |-> <<>>, embedding_results |-> <<>>,
            rrf_scores |-> <<>>]

\* No call is on record.
NoCall ==
    [made |-> FALSE, others |-> FALSE, query |-> NoQuery, top_k |-> 0,
     alpha |-> <<0, 1>>, result |-> <<>>]

\* A key a dict does not hold.
Missing == "<missing>"

NoDocument == [text |-> <<>>, filename |-> Missing, metadata |-> Missing]

\* What the indices built over n chunks can answer for a query.  tokens
\* tells whether _tokenize finds a word in the query (1) or none (0: the
\* empty string, punctuation only); a query without tokens matches no chunk.
Queries(n) ==
    {q \in [scores : [1..n -> Scores], neighbours : Perms(n), tokens : {0, 1}] :
        q.tokens = 0 => \A i \in 1..n : q.scores[i] = 0}

\* ------------------------------------------------------------- self.chunks
\* A search that moves its first chunk to the end of the collection.
RotatedChunks(cs) == IF cs = <<>> THEN cs ELSE Append(Tail(cs), Head(cs))

\* self.chunks after a search: the searches read self.chunks[idx] and never
\* assign it.
SelfChunks(cs) == cs

\* ----------------------------------------------------------- BM25Retriever
\* self.bm25.get_scores(query_tokens): a vector of n zeros to which every
\* query token adds its share, so zeros for a query without tokens.
GetScores(q, n) ==
    IF q.tokens = 0 THEN [i \in 1..n |-> 0] ELSE q.scores

\* BM25Retriever.search: the top_k indices by descending score, ties in
\* collection order, paired with their scores.
BM25Search(q, k) ==
    LET n == corpus_size
        scores == [i \in 0..(n - 1) |-> GetScores(q, n)[i + 1]]
        top_indices == Take(SortedReverse(Range(n), scores), k)
    IN  [j \in 1..Len(top_indices) |->
            [chunk |-> PyGet(chunks, top_indices[j]),
             score |-> scores[top_indices[j]]]]

\* ------------------------------------------------------ EmbeddingRetriever
\* The distance FAISS reports for a label it could not fill (-FLT_MAX for an
\* inner-product index): below every similarity.
NoNeighbourScore == 0 - (MaxChunks + 2)

\* The similarity of the j-th nearest neighbour among n, scaled: strictly
\* decreasing along the neighbour order.
Similarity(n, j) == n - j

\* faiss Index.search(x, k) for k >= 1: exactly k labels and k distances, the
\* ntotal nearest first and label -1 for every position beyond ntotal.
FaissLabels(q, k) ==
    [j \in 1..k |-> IF j <= Len(q.neighbours) THEN q.neighbours[j] ELSE 0 - 1]

FaissDistances(q, k) ==
    [j \in 1..k |-> IF j <= Len(q.neighbours)
                    THEN Similarity(Len(q.neighbours), j)
                    ELSE NoNeighbourScore]

\* for idx, score in zip(indices[0], scores[0]):
\*     results.append((self.chunks[idx], float(score)))
ResultOfLabel(labels, distances) ==
    [j \in 1..Len(labels) |->
        [chunk |-> PyGet(chunks, labels[j]), score |-> distances[j]]]

\* EmbeddingRetriever.search for top_k >= 1
EmbeddingSearch(q, k) == ResultOfLabel(FaissLabels(q, k), FaissDistances(q, k))

\* An embedding search that refuses a query without word tokens.
EmbeddingOutcomesStrict(q, k) ==
    IF k >= 1 /\ q.tokens # 0
    THEN {[status |-> "ok", results |-> EmbeddingSearch(q, k)]}
    ELSE {[status |-> "AssertionError", results |-> <<>>]}

\* What self.index.search(query_embedding, top_k) lets the call end in.  With
\* top_k = 0 the outcome depends on the installed faiss: its Python wrapper
\* asserts k > 0 (AssertionError), older wrappers return empty arrays.
\* A label beyond the collection makes self.chunks[idx] raise IndexError.
EmbeddingOutcomes(q, k) ==
    IF k >= 1
    THEN IF \E j \in 1..k : FaissLabels(q, k)[j] >= Len(chunks)
         THEN {[status |-> "IndexError", results |-> <<>>]}
         ELSE {[status |-> "ok", results |-> EmbeddingSearch(q, k)]}
    ELSE {[status |-> "ok", results |-> <<>>],
          [status |-> "AssertionError", results |-> <<>>]}

\* ------------------------------------------------- search_with_threshold
\* The thresholds a caller passes: one every score reaches, one no score
\* reaches, and the scores in between.
Thresholds == {NoNeighbourScore, 0, 1, 2, 3}

RECURSIVE FilterAbove(_, _)
FilterAbove(results, t) ==
    IF results = <<>> THEN <<>>
    ELSE (IF Head(results).score > t THEN <<Head(results)>> ELSE <<>>)
         \o FilterAbove(Tail(results), t)

RECURSIVE FilterUpTo(_, _)
FilterUpTo(results, t) ==
    IF results = <<>> THEN <<>>
    ELSE (IF Head(results).score <= t THEN <<Head(results)>> ELSE <<>>)
         \o FilterUpTo(Tail(results), t)

\* [(chunk, score) for chunk, score in results if score >= threshold]
RECURSIVE FilterByThreshold(_, _)
FilterByThreshold(results, t) ==
    IF results = <<>> THEN <<>>
    ELSE (IF Head(results).score >= t THEN <<Head(results)>> ELSE <<>>)
         \o FilterByThreshold(Tail(results), t)

\* --------------------------------------------------------- HybridRetriever
k_constant == 60

RECURSIVE Product(_, _)
Product(lo, hi) == IF lo > hi THEN 1 ELSE lo * Product(lo + 1, hi)

\* A common multiple of k_constant + rank for every rank a list can hold.
RRFScale == Product(k_constant + 1, k_constant + MaxK)

\* 1.0 / (k_constant + rank), scaled by RRFScale
RRF(rank) == RRFScale \div (k_constant + rank)

\* The position of key chunk_id in the mapping, 0 when it is absent.
KeyIndex(d, chunk_id) ==
    IF \E i \in 1..Len(d) : d[i].id = chunk_id
    THEN CHOOSE i \in 1..Len(d) : d[i].id = chunk_id
    ELSE 0

\* d[chunk_id] = entry on a dict: an existing key keeps its place.
DictSet(d, entry) ==
    LET i == KeyIndex(d, entry.id)
    IN  IF i = 0 THEN Append(d, entry) ELSE [d EXCEPT ![i] = entry]

RECURSIVE FuseBM25(_, _, _)
\* for rank, (chunk, score) in enumerate(bm25_results, start=1): ...
FuseBM25(d, results, rank) ==
    IF rank > Len(results) THEN d
    ELSE FuseBM25(DictSet(d, [id |-> results[rank].chunk,
                              chunk |-> results[rank].chunk,
                              bm25_rrf |-> RRF(rank),
                              embedding_rrf |-> 0]),
                  results, rank + 1)

\* A second loop that never looks the chunk up: every semantic result gets
\* an entry of its own.
FuseEmbeddingStepNoMerge(d, chunk, rank) ==
    Append(d, [id |-> chunk, chunk |-> chunk,
               bm25_rrf |-> 0, embedding_rrf |-> RRF(rank)])

\* One round of the second loop: merge into the chunk's entry or add one.
FuseEmbeddingStep(d, chunk, rank) ==
    LET i == KeyIndex(d, chunk)
    IN  IF i # 0
        THEN [d EXCEPT ![i].embedding_rrf = RRF(rank)]
        ELSE DictSet(d, [id |-> chunk, chunk |-> chunk,
                         bm25_rrf |-> 0, embedding_rrf |-> RRF(rank)])

RECURSIVE FuseEmbedding(_, _, _)
\* for rank, (chunk, score) in enumerate(embedding_results, start=1): ...
FuseEmbedding(d, results, rank) ==
    IF rank > Len(results) THEN d
    ELSE FuseEmbedding(FuseEmbeddingStep(d, results[rank].chunk, rank),
                       results, rank + 1)

\* A fused score that swaps the two weights.
HybridScoreSwapped(a, data) ==
    a[1] * data.bm25_rrf + (a[2] - a[1]) * data.embedding_rrf

\* alpha * embedding_rrf + (1 - alpha) * bm25_rrf, scaled by a[2] * RRFScale
HybridScore(a, data) ==
    a[1] * data.embedding_rrf + (a[2] - a[1]) * data.bm25_rrf

\* hybrid_results before the sort: one pair per entry, in mapping order.
HybridResults(d, a) ==
    [i \in 1..Len(d) |-> [chunk |-> d[i].chunk, score |-> HybridScore(a, d[i])]]

\* hybrid_results.sort(key=lambda x: x[1], reverse=True)
SortByScore(results) ==
    LET keyOf == [i \in 1..Len(results) |-> results[i].score]
        order == SortedReverse([i \in 1..Len(results) |-> i], keyOf)
    IN  [i \in 1..Len(results) |-> results[order[i]]]

\* A return that forgets the slice.
TruncateNone(results, k) == results

\* hybrid_results[:top_k]
Truncate(results, k) == Take(results, k)

\* The chunks of a result list, in order.
ChunksOf(results) == [i \in 1..Len(results) |-> results[i].chunk]

\* ----------------------------------------------------------------- actions
Idle ==
    /\ pc = "idle"
    /\ op = "none"
    /\ query = NoQuery
    /\ top_k = 0
    /\ alpha = <<0, 1>>
    /\ bm25_k = 0
    /\ embedding_k = 0
    /\ bm25_results = <<>>
    /\ embedding_results = <<>>
    /\ rrf_scores = <<>>
    /\ threshold = 0
    /\ result = <<>>
    /\ status = "none"
    /\ text = <<>>
    /\ chunk_size = 0
    /\ raw_chunks = <<>>
    /\ document = NoDocument
    /\ first = NoCall
    /\ calls = [t \in Threads |-> NoThreadCall]
    /\ frames = [t \in Threads |-> NoFrame]

\* A HybridRetriever built over a collection of 1..MaxChunks chunks, no call
\* made.
Init ==
    /\ chunks \in {Range(n) : n \in 1..MaxChunks}
    /\ retriever = "hybrid"
    /\ corpus_size = Len(chunks)
    /\ ntotal = Len(chunks)
    /\ disk = 0
    /\ Offline
    /\ Idle

\* HybridRetriever.search(query, top_k, alpha, bm25_k, embedding_k)
Search ==
    /\ pc = "idle"
    /\ retriever = "hybrid"
    /\ \E q \in Queries(Len(chunks)), bk \in 0..MaxK, ek \in 0..MaxK :
         \E b \in {BM25Search(q, bk)}, e \in EmbeddingOutcomes(q, ek) :
           \E d \in {FuseEmbedding(FuseBM25(<<>>, b, 1), e.results, 1)},
              k \in 0..MaxK, a \in Alphas :
                /\ op' = "search"
                /\ query' = q
                /\ top_k' = k
                /\ alpha' = a
                /\ bm25_k' = bk
                /\ embedding_k' = ek
                /\ bm25_results' = b
                /\ status' = e.status
                /\ embedding_results' = e.results
                /\ rrf_scores' = IF e.status = "ok" THEN d ELSE <<>>
                /\ result' = IF e.status = "ok"
                             THEN Truncate(SortByScore(HybridResults(d, a)), k)
                             ELSE <<>>
    /\ pc' = "returned"
    /\ chunks' = SelfChunks(chunks)
    /\ UNCHANGED <<indexVars, outerVars, historyVars, threadVars, threshold,
                   chunkerVars>>

\* HybridRetriever.search_bm25_only(query, top_k), which is
\* BM25Retriever.search(query, top_k)
SearchBm25Only ==
    /\ pc = "idle"
    /\ retriever \in {"hybrid", "bm25"}
    /\ \E q \in Queries(Len(chunks)), k \in 0..MaxK :
         /\ op' = "search_bm25_only"
         /\ query' = q
         /\ top_k' = k
         /\ result' = BM25Search(q, k)
    /\ status' = "ok"
    /\ pc' = "returned"
    /\ chunks' = SelfChunks(chunks)
    /\ UNCHANGED <<indexVars, outerVars, historyVars, threadVars, alpha, bm25_k,
                   embedding_k,
                   bm25_results, embedding_results, rrf_scores, threshold,
                   chunkerVars>>

\* HybridRetriever.search_embedding_only(query, top_k), which is
\* EmbeddingRetriever.search(query, top_k)
SearchEmbeddingOnly ==
    /\ pc = "idle"
    /\ retriever \in {"hybrid", "embedding"}
    /\ \E q \in Queries(ntotal), k \in 0..MaxK :
         \E e \in EmbeddingOutcomes(q, k) :
            /\ op' = "search_embedding_only"
            /\ query' = q
            /\ top_k' = k
            /\ result' = e.results
            /\ status' = e.status
    /\ pc' = "returned"
    /\ chunks' = SelfChunks(chunks)
    /\ UNCHANGED <<indexVars, outerVars, historyVars, threadVars, alpha, bm25_k,
                   embedding_k,
                   bm25_results, embedding_results, rrf_scores, threshold,
                   chunkerVars>>

\* BM25Retriever.search_with_threshold(query, threshold, top_k)
Bm25SearchWithThreshold ==
    /\ pc = "idle"
    /\ retriever \in {"hybrid", "bm25"}
    /\ \E q \in Queries(Len(chunks)), t \in Thresholds, k \in 0..MaxK :
         /\ op' = "bm25_search_with_threshold"
         /\ query' = q
         /\ threshold' = t
         /\ top_k' = k
         /\ result' = FilterByThreshold(BM25Search(q, k), t)
    /\ status' = "ok"
    /\ pc' = "returned"
    /\ chunks' = SelfChunks(chunks)
    /\ UNCHANGED <<indexVars, outerVars, historyVars, threadVars, alpha, bm25_k,
                   embedding_k,
                   bm25_results, embedding_results, rrf_scores, chunkerVars>>

\* EmbeddingRetriever.search_with_threshold(query, threshold, top_k)
EmbeddingSearchWithThreshold ==
    /\ pc = "idle"
    /\ retriever \in {"hybrid", "embedding"}
    /\ \E q \in Queries(ntotal), t \in Thresholds, k \in 0..MaxK :
         \E e \in EmbeddingOutcomes(q, k) :
            /\ op' = "embedding_search_with_threshold"
            /\ query' = q
            /\ threshold' = t
            /\ top_k' = k
            /\ result' = FilterByThreshold(e.results, t)
            /\ status' = e.status
    /\ pc' = "returned"
    /\ chunks' = SelfChunks(chunks)
    /\ UNCHANGED <<indexVars, outerVars, historyVars, threadVars, alpha, bm25_k,
                   embedding_k,
                   bm25_results, embedding_results, rrf_scores, chunkerVars>>

\* The state between two calls.
Reset ==
    /\ pc' = "idle"
    /\ op' = "none"
    /\ query' = NoQuery
    /\ top_k' = 0
    /\ alpha' = <<0, 1>>
    /\ bm25_k' = 0
    /\ embedding_k' = 0
    /\ bm25_results' = <<>>
    /\ embedding_results' = <<>>
    /\ rrf_scores' = <<>>
    /\ threshold' = 0
    /\ result' = <<>>
    /\ status' = "none"
    /\ text' = <<>>
    /\ chunk_size' = 0
    /\ raw_chunks' = <<>>
    /\ document' = NoDocument

\* The caller takes the returned list (or the exception); the retriever is
\* ready for the next call.
Return ==
    /\ pc = "returned"
    /\ Reset
    /\ first' = IF first.made THEN [first EXCEPT !.others = TRUE] ELSE first
    /\ UNCHANGED <<chunks, indexVars, outerVars, threadVars>>

\* The caller keeps the arguments and the list of a call of
\* HybridRetriever.search made with the widest candidate lists, to compare
\* later calls with.
Remember ==
    /\ pc = "returned" /\ op = "search" /\ status = "ok"
    /\ ~first.made
    /\ top_k = MaxK /\ bm25_k = MaxK /\ embedding_k = MaxK
    /\ first' = [made |-> TRUE, others |-> FALSE, query |-> query,
                 top_k |-> top_k, alpha |-> alpha, result |-> result]
    /\ Reset
    /\ UNCHANGED <<chunks, indexVars, outerVars, threadVars>>

Next ==
    \/ Search
    \/ SearchBm25Only
    \/ SearchEmbeddingOnly
    \/ Bm25SearchWithThreshold
    \/ EmbeddingSearchWithThreshold
    \/ Return

Spec == Init /\ [][Next]_vars

\* ---------------------------------------------------------- repeated calls
MaxShared == 2

\* A HybridRetriever over a collection of 1..MaxShared chunks, in use by a
\* caller that compares the lists it gets.
InitRepeat ==
    /\ chunks \in {Range(n) : n \in 1..MaxShared}
    /\ retriever = "hybrid"
    /\ corpus_size = Len(chunks)
    /\ ntotal = Len(chunks)
    /\ disk = 0
    /\ Offline
    /\ Idle

NextRepeat == Next \/ Remember

SpecRepeat == InitRepeat /\ [][NextRepeat]_vars

\* -------------------------------------------------------- concurrent calls
\* Everything of the one-caller protocol, which the threads leave alone.
sequentialVars ==
    <<pc, op, searchVars, result, status, chunkerVars, historyVars>>

\* One frame for all the calls, as locals kept on the retriever would be.
SharedFrame(t) == 1

\* The frame of the call thread t is in: rrf_scores = {} and the two result
\* lists are locals of the call.
FrameOf(t) == t

\* Thread t has acted: every other thread inside a call has been raced.
Raced(cs, t) ==
    [u \in Threads |->
        IF u # t /\ cs[u].pc \in {"called", "retrieved", "fused"}
        THEN [cs[u] EXCEPT !.raced = TRUE]
        ELSE cs[u]]

\* What the four methods of one statement return.
Direct(c) ==
    CASE c.op = "search_bm25_only" -> BM25Search(c.query, MaxK)
      [] c.op = "search_embedding_only" -> EmbeddingSearch(c.query, MaxK)
      [] c.op = "bm25_search_with_threshold" ->
            FilterByThreshold(BM25Search(c.query, MaxK), c.threshold)
      [] c.op = "embedding_search_with_threshold" ->
            FilterByThreshold(EmbeddingSearch(c.query, MaxK), c.threshold)

\* Thread t calls HybridRetriever.search, with top_k, bm25_k and embedding_k
\* at MaxK.
Call(t) ==
    /\ calls[t].pc = "idle"
    /\ retriever = "hybrid"
    /\ \E q \in Queries(Len(chunks)), a \in Alphas :
         calls' = [calls EXCEPT ![t] =
             [NoThreadCall EXCEPT !.pc = "called", !.op = "search",
                                  !.query = q, !.alpha = a]]
    /\ UNCHANGED <<chunks, indexVars, outerVars, frames, sequentialVars>>

\* HybridRetriever.search, lines 33-36: the two result lists and the empty
\* mapping.
Retrieve(t) ==
    /\ calls[t].pc = "called" /\ calls[t].op = "search"
    /\ frames' = [frames EXCEPT ![FrameOf(t)] =
           [bm25_results |-> BM25Search(calls[t].query, MaxK),
            embedding_results |-> EmbeddingSearch(calls[t].query, MaxK),
            rrf_scores |-> <<>>]]
    /\ calls' = [Raced(calls, t) EXCEPT ![t].pc = "retrieved"]
    /\ chunks' = SelfChunks(chunks)
    /\ UNCHANGED <<indexVars, outerVars, sequentialVars>>

\* HybridRetriever.search, lines 39-59: the two loops that fill rrf_scores.
Fuse(t) ==
    /\ calls[t].pc = "retrieved"
    /\ LET f == frames[FrameOf(t)]
       IN  frames' = [frames EXCEPT ![FrameOf(t)].rrf_scores =
               FuseEmbedding(FuseBM25(f.rrf_scores, f.bm25_results, 1),
                             f.embedding_results, 1)]
    /\ calls' = [Raced(calls, t) EXCEPT ![t].pc = "fused"]
    /\ UNCHANGED <<chunks, indexVars, outerVars, sequentialVars>>

\* HybridRetriever.search, lines 61-71: score, sort, slice and return.
SortAndReturn(t) ==
    /\ calls[t].pc = "fused"
    /\ calls' = [Raced(calls, t) EXCEPT
           ![t].pc = "returned",
           ![t].result =
               Truncate(SortByScore(HybridResults(frames[FrameOf(t)].rrf_scores,
                                                  calls[t].alpha)), MaxK)]
    /\ frames' = [frames EXCEPT ![FrameOf(t)] = NoFrame]
    /\ UNCHANGED <<chunks, indexVars, outerVars, sequentialVars>>

\* Thread t calls search_bm25_only, search_embedding_only or one of the two
\* search_with_threshold methods, with top_k at MaxK: one statement each.
Answer(t) ==
    /\ calls[t].pc = "idle"
    /\ retriever = "hybrid"
    /\ \E q \in Queries(Len(chunks)), th \in Thresholds,
          o \in {"search_bm25_only", "search_embedding_only",
                 "bm25_search_with_threshold",
                 "embedding_search_with_threshold"} :
         LET c == [NoThreadCall EXCEPT
                      !.pc = "returned", !.op = o, !.query = q,
                      !.threshold =
                          IF o \in {"search_bm25_only", "search_embedding_only"}
                          THEN 0 ELSE th]
         IN  calls' = [Raced(calls, t) EXCEPT
                          ![t] = [c EXCEPT !.result = Direct(c)]]
    /\ chunks' = SelfChunks(chunks)
    /\ UNCHANGED <<indexVars, outerVars, frames, sequentialVars>>

\* The caller in thread t takes its list.
Finish(t) ==
    /\ calls[t].pc = "returned"
    /\ calls' = [calls EXCEPT ![t] = NoThreadCall]
    /\ UNCHANGED <<chunks, indexVars, outerVars, frames, sequentialVars>>

NextConcurrent ==
    \E t \in Threads :
        \/ Call(t)
        \/ Retrieve(t)
        \/ Fuse(t)
        \/ SortAndReturn(t)
        \/ Answer(t)
        \/ Finish(t)

SpecConcurrent == InitRepeat /\ [][NextConcurrent]_vars

\* ------------------------------------------------------------ construction
\* A BM25Okapi that takes any corpus.
BM25OkapiLenient(n) == "ok"

\* BM25Okapi(self.tokenized_chunks): the average document length divides by
\* the number of documents.
BM25Okapi(n) == IF n = 0 THEN "ZeroDivisionError" ELSE "ok"

\* dimension = self.embeddings.shape[1]: encode([]) returns an array of one
\* axis.
EmbeddingDimension(n) == IF n = 0 THEN "IndexError" ELSE "ok"

\* No retriever has been constructed.
InitBuild ==
    /\ chunks = <<>>
    /\ retriever = "none"
    /\ corpus_size = 0
    /\ ntotal = 0
    /\ disk = 0
    /\ Offline
    /\ Idle

\* The call of a constructor over cs ends in status s; kind is the object it
\* leaves when s is "ok", with the indices bm25 and faiss of that many
\* entries.
Constructed(name, kind, cs, s, bm25, faiss) ==
    /\ op' = name
    /\ chunks' = cs
    /\ status' = s
    /\ retriever' = IF s = "ok" THEN kind ELSE "none"
    /\ corpus_size' = IF s = "ok" THEN bm25 ELSE 0
    /\ ntotal' = IF s = "ok" THEN faiss ELSE 0
    /\ pc' = "returned"
    /\ UNCHANGED <<query, top_k, alpha, bm25_k, embedding_k, bm25_results,
                   embedding_results, rrf_scores, threshold, result,
                   chunkerVars, historyVars, threadVars, outerVars>>

\* BM25Retriever(chunks)
BuildBM25 ==
    /\ pc = "idle" /\ retriever = "none"
    /\ \E n \in 0..MaxChunks :
         Constructed("BM25Retriever", "bm25", Range(n), BM25Okapi(n), n, 0)

\* EmbeddingRetriever(chunks)
BuildEmbedding ==
    /\ pc = "idle" /\ retriever = "none"
    /\ \E n \in 0..MaxChunks :
         Constructed("EmbeddingRetriever", "embedding", Range(n),
                     EmbeddingDimension(n), 0, n)

\* HybridRetriever(chunks): the BM25 retriever first, then the embedding
\* retriever.
BuildHybrid ==
    /\ pc = "idle" /\ retriever = "none"
    /\ \E n \in 0..MaxChunks :
         Constructed("HybridRetriever", "hybrid", Range(n),
                     IF BM25Okapi(n) # "ok" THEN BM25Okapi(n)
                     ELSE EmbeddingDimension(n),
                     n, n)

NextBuild ==
    \/ BuildBM25
    \/ BuildEmbedding
    \/ BuildHybrid
    \/ SearchBm25Only
    \/ SearchEmbeddingOnly
    \/ Return

SpecBuild == InitBuild /\ [][NextBuild]_vars

\* -------------------------------------------------------------- persistence
\* EmbeddingRetriever.save_index(index_path)
SaveIndex ==
    /\ pc = "idle" /\ retriever = "embedding"
    /\ op' = "save_index"
    /\ disk' = ntotal
    /\ status' = "ok"
    /\ pc' = "returned"
    /\ UNCHANGED <<chunks, indexVars, query, top_k, alpha, bm25_k,
                   embedding_k, bm25_results, embedding_results, rrf_scores,
                   threshold, result, chunkerVars, historyVars, threadVars,
                   ingestVars, serverVars>>

\* EmbeddingRetriever.load_index(index_path): self.index becomes what the
\* file holds; faiss.read_index raises RuntimeError when there is no file.
LoadIndex ==
    /\ pc = "idle" /\ retriever = "embedding"
    /\ op' = "load_index"
    /\ status' = IF disk = 0 THEN "RuntimeError" ELSE "ok"
    /\ ntotal' = IF disk = 0 THEN ntotal ELSE disk
    /\ pc' = "returned"
    /\ UNCHANGED <<chunks, retriever, corpus_size, outerVars, query, top_k,
                   alpha, bm25_k, embedding_k, bm25_results,
                   embedding_results, rrf_scores, threshold, result,
                   chunkerVars, historyVars, threadVars>>

\* The process ends: the retriever is gone, the index file stays.
Exit ==
    /\ pc = "idle" /\ retriever = "embedding"
    /\ retriever' = "none"
    /\ chunks' = <<>>
    /\ corpus_size' = 0
    /\ ntotal' = 0
    /\ UNCHANGED <<pc, op, searchVars, result, status, chunkerVars,
                   historyVars, threadVars, outerVars>>

NextPersist ==
    \/ BuildEmbedding
    \/ SaveIndex
    \/ LoadIndex
    \/ Exit
    \/ SearchEmbeddingOnly
    \/ EmbeddingSearchWithThreshold
    \/ Return

SpecPersist == InitBuild /\ [][NextPersist]_vars

\* ---------------------------------------------------------- metadata by file
MaxDocuments == 2
MaxRows == 2

DocumentFilenames == {"a.pdf", "b.pdf", "c.pdf"}
RowFilenames == {"a.pdf", "b.pdf"}
Subjects == {"maths", "physics"}

\* The documents the extraction delivers, before metadata is attached.
ExtractedDocuments == [filename : DocumentFilenames, text : {"text"}]
DocumentLists == UNION {[1..n -> ExtractedDocuments] : n \in 0..MaxDocuments}

\* A dict of csv.DictReader holds one value per column of the header; a
\* column the header lacks is Missing in every row of the file.
RowsWithFilename == [filename : RowFilenames, subject : Subjects]
RowsWithoutFilename == [filename : {Missing}, subject : Subjects]
MetadataLists ==
    UNION {[1..n -> RowsWithFilename] \cup [1..n -> RowsWithoutFilename] :
           n \in 0..MaxRows}

\* {}
EmptyRecord == [filename |-> Missing, subject |-> Missing]

RECURSIVE MetadataLookup(_, _)
\* {item['filename']: item for item in metadata}, from the mapping d on
MetadataLookup(d, rows) ==
    IF rows = <<>> THEN d
    ELSE MetadataLookup(DictSet(d, [id |-> Head(rows).filename,
                                    item |-> Head(rows)]),
                        Tail(rows))

\* A match that takes the first row of the file whatever its filename.
MetadataForFirstRow(lookup, filename) ==
    IF lookup = <<>> THEN EmptyRecord ELSE lookup[1].item

\* metadata_lookup[filename] if filename in metadata_lookup else {}
MetadataFor(lookup, filename) ==
    LET i == KeyIndex(lookup, filename)
    IN  IF i = 0 THEN EmptyRecord ELSE lookup[i].item

\* for doc in documents: doc['metadata'] = ...
MatchedDocuments(docs, lookup) ==
    [i \in 1..Len(docs) |->
        [filename |-> docs[i].filename,
         text |-> docs[i].text,
         metadata |-> MetadataFor(lookup, docs[i].filename)]]

InitIngest ==
    /\ chunks = <<>>
    /\ retriever = "none"
    /\ corpus_size = 0
    /\ ntotal = 0
    /\ disk = 0
    /\ documents \in DocumentLists
    /\ metadata = <<>>
    /\ lifespan = "off"
    /\ startup = "none"
    /\ quota_db = FALSE
    /\ _quota_db = FALSE
    /\ _modes = FALSE
    /\ tenants = <<>>
    /\ usage = <<>>
    /\ requests = <<>>
    /\ Idle

\* load_csv_metadata(csv_path): the rows of the file, FileNotFoundError
\* when there is no file.
LoadCsvMetadata ==
    /\ pc = "idle"
    /\ op' = "load_csv_metadata"
    /\ \/ /\ \E rows \in MetadataLists : metadata' = rows
          /\ status' = "ok"
       \/ /\ metadata' = <<>>
          /\ status' = "FileNotFoundError"
    /\ pc' = "returned"
    /\ UNCHANGED <<chunks, indexVars, searchVars, result, chunkerVars,
                   historyVars, threadVars, disk, documents, serverVars>>

\* match_metadata_to_documents(documents, metadata): item['filename'] raises
\* KeyError on a row without that column.  documents is the list as it was
\* passed, result the same list with its dicts updated.
MatchMetadataToDocuments ==
    /\ pc = "idle"
    /\ op' = "match_metadata_to_documents"
    /\ IF \E j \in 1..Len(metadata) : metadata[j].filename = Missing
       THEN /\ status' = "KeyError"
            /\ result' = <<>>
       ELSE /\ status' = "ok"
            /\ result' = MatchedDocuments(documents,
                                          MetadataLookup(<<>>, metadata))
    /\ pc' = "returned"
    /\ UNCHANGED <<chunks, indexVars, searchVars, chunkerVars, historyVars,
                   threadVars, outerVars>>

NextIngest ==
    \/ LoadCsvMetadata
    \/ MatchMetadataToDocuments
    \/ Return

SpecIngest == InitIngest /\ [][NextIngest]_vars

\* --------------------------------------------------------------- API server
MaxTokens == 2
MaxUsage == 3
FreeDailyLimit == 2
FreeMonthlyLimit == 3

\* The requests handled at one time.
Clients == {1, 2}

TenantIds == {"demo_user", "school"}

\* QuotaDatabase.TIER_LIMITS, in units of FreeDailyLimit tokens a day for
\* the free tier; the pro tier, ten times the free one, is left out.
TIER_LIMITS ==
    [free |-> [daily_token_limit |-> FreeDailyLimit,
               monthly_token_limit |-> FreeMonthlyLimit],
     enterprise |-> [daily_token_limit |-> -1,
                     monthly_token_limit |-> -1]]

\* A row of the tenants table as add_tenant writes it.
TenantRow(tier, active) ==
    [exists |-> TRUE, is_active |-> active, tier |-> tier,
     daily_token_limit |-> TIER_LIMITS[tier].daily_token_limit,
     monthly_token_limit |-> TIER_LIMITS[tier].monthly_token_limit]

\* get_tenant returns None.
NoTenant ==
    [exists |-> FALSE, is_active |-> FALSE, tier |-> "none",
     daily_token_limit |-> 0, monthly_token_limit |-> 0]

\* The tenants tables a server can find in data/quotas.db: the default
\* tenant is absent or on the free tier, the other one is a deactivated
\* tenant of the free tier or an enterprise tenant.
TenantTables ==
    [demo_user : {NoTenant, TenantRow("free", TRUE)},
     school : {TenantRow("free", FALSE), TenantRow("enterprise", TRUE)}]

\* The usage rows of a tenant, by the age of their timestamp: the tokens of
\* the rows of the last day, and those of the rows between one and thirty
\* days old.  Older rows count in no window.
NoUsage == [day |-> 0, month |-> 0]

\* The usage tables a server can find there: no row, or the rows of a
\* tenant that has used its tokens of the day.
UsageTables ==
    {[t \in TenantIds |-> NoUsage]} \cup
    {[[t \in TenantIds |-> NoUsage]
         EXCEPT ![u] = [day |-> FreeDailyLimit, month |-> 0]] :
       u \in TenantIds}

\* The paths of the routes, by segment: "/" is <<>>, "/mark" is <<"mark">>.
ModePaths == {<<"mark">>, <<"explain">>, <<"example">>, <<"flashcards">>}
ResetPaths == {<<"admin", "tenants", t, "reset">> : t \in TenantIds}
Paths == ModePaths \cup ResetPaths \cup {<<>>, <<"health">>}

\* The X-Tenant-ID header: absent, or a tenant id.
Headers == {Missing} \cup TenantIds

\* QuotaMiddleware.exempt_paths and exempt_exact_paths; of the routes, the
\* paths that start with an exempt prefix are those whose first segment is
\* the prefix.
exempt_paths == {"health", "docs", "redoc", "openapi.json", "admin"}
Exempt(path) == path = <<>> \/ Head(path) \in exempt_paths

\* The route a path leads to: the handlers of the four modes differ in the
\* mode they call and in the endpoint name they record, root and
\* health_check answer from what the process holds.
RouteOf(path) ==
    IF path \in ModePaths THEN "mode"
    ELSE IF path \in ResetPaths THEN "reset"
    ELSE "system"

\* A request: its position, the route and the tenant of its path, the tenant
\* dispatch checked, the answer of check_quota and the usage rows there
\* were at that time, what dispatch left in request.state, the status code
\* of the response, and what was done for the request.
NoRequest ==
    [pc |-> "none", route |-> "none", target |-> Missing,
     checked |-> Missing, can_proceed |-> "unchecked", found |-> NoUsage,
     tenant_id |-> Missing, response |-> 0,
     handler |-> FALSE, searched |-> FALSE, generated |-> FALSE,
     recorded |-> FALSE]

\* The server takes requests once lifespan has reached its yield; served
\* without lifespan, it takes them at once.
Accepting == lifespan = "off" \/ startup = "serving"

\* QuotaDatabase._get_usage_in_period(tenant_id, days), days 1 or 30
GetUsageInPeriod(tenant_id, days) ==
    IF days = 1 THEN usage[tenant_id].day
    ELSE usage[tenant_id].day + usage[tenant_id].month

\* QuotaDatabase.check_quota(tenant_id).  has_usage tells the keys of the
\* second value: the usage keys, or "error" alone.
CheckQuota(tenant_id) ==
    LET tenant == tenants[tenant_id]
        daily_usage == GetUsageInPeriod(tenant_id, 1)
        monthly_usage == GetUsageInPeriod(tenant_id, 30)
        daily_limit == tenant.daily_token_limit
        monthly_limit == tenant.monthly_token_limit
        reason == IF daily_limit # -1 /\ daily_usage >= daily_limit
                  THEN "daily"
                  ELSE IF monthly_limit # -1 /\ monthly_usage >= monthly_limit
                       THEN "monthly"
                       ELSE "none"
    IN  IF ~tenant.exists
        THEN [can_proceed |-> FALSE, has_usage |-> FALSE,
              reason |-> "not found"]
        ELSE IF ~tenant.is_active
        THEN [can_proceed |-> FALSE, has_usage |-> FALSE,
              reason |-> "inactive"]
        ELSE [can_proceed |-> reason = "none", has_usage |-> TRUE,
              reason |-> reason]

InitServer ==
    /\ chunks = <<>>
    /\ retriever = "none"
    /\ corpus_size = 0
    /\ ntotal = 0
    /\ disk = 0
    /\ documents = <<>>
    /\ metadata = <<>>
    /\ lifespan \in {"on", "off"}
    /\ startup = "none"
    /\ quota_db = FALSE
    /\ _quota_db = FALSE
    /\ _modes = FALSE
    /\ tenants \in TenantTables
    /\ usage \in UsageTables
    /\ requests = [c \in Clients |-> NoRequest]
    /\ Idle

callerVars == <<pc, op, searchVars, result, status, chunkerVars,
                historyVars, threadVars, disk, ingestVars>>

\* lifespan, lines 29-33: the quota database is opened and handed to the
\* application state and to the routes.
StartDatabase ==
    /\ lifespan = "on" /\ startup = "none"
    /\ quota_db' = TRUE
    /\ _quota_db' = TRUE
    /\ startup' = "database"
    /\ UNCHANGED <<chunks, indexVars, callerVars, lifespan, _modes, tenants,
                   usage, requests>>

\* lifespan, lines 36-39: ingest_documents returns the chunks of the
\* documents, or raises ValueError when the directory holds no PDF.
Ingest ==
    /\ startup = "database"
    /\ \/ /\ \E n \in 0..MaxChunks : chunks' = Range(n)
          /\ startup' = "ingested"
       \/ /\ chunks' = <<>>
          /\ startup' = "failed"
    /\ UNCHANGED <<indexVars, callerVars, lifespan, quota_db, _quota_db,
                   _modes, tenants, usage, requests>>

\* lifespan, lines 41-43: HybridRetriever(chunks); an exception of the
\* constructor ends the startup.
StartRetriever ==
    /\ startup = "ingested"
    /\ LET n == Len(chunks)
           s == IF BM25Okapi(n) # "ok" THEN BM25Okapi(n)
                ELSE EmbeddingDimension(n)
       IN  IF s = "ok"
           THEN /\ retriever' = "hybrid"
                /\ corpus_size' = n
                /\ ntotal' = n
                /\ startup' = "retriever"
           ELSE /\ UNCHANGED indexVars
                /\ startup' = "failed"
    /\ UNCHANGED <<chunks, callerVars, lifespan, quota_db, _quota_db, _modes,
                   tenants, usage, requests>>

\* lifespan, lines 45-59: LLMClient() raises ValueError without an API key;
\* otherwise the modes are set and the server starts to serve.
StartModes ==
    /\ startup = "retriever"
    /\ \/ /\ _modes' = TRUE
          /\ startup' = "serving"
       \/ /\ _modes' = FALSE
          /\ startup' = "failed"
    /\ UNCHANGED <<chunks, indexVars, callerVars, lifespan, quota_db,
                   _quota_db, tenants, usage, requests>>

\* lifespan, lines 61-62: the server stops when no request is in flight.
Shutdown ==
    /\ startup = "serving"
    /\ \A c \in Clients : requests[c].pc = "none"
    /\ startup' = "stopped"
    /\ UNCHANGED <<chunks, indexVars, callerVars, lifespan, quota_db,
                   _quota_db, _modes, tenants, usage, requests>>

serviceVars == <<chunks, indexVars, callerVars, lifespan, startup, quota_db,
                 _quota_db, _modes, tenants>>

\* A request arrives and QuotaMiddleware.dispatch runs up to call_next or
\* to its own response.  The KeyError of usage_info["daily_usage"] leaves
\* dispatch and the server answers 500.
Dispatch(c) ==
    /\ Accepting
    /\ requests[c].pc = "none"
    /\ \E path \in Paths, header \in Headers :
         LET r == [NoRequest EXCEPT
                     !.route = RouteOf(path),
                     !.target = IF path \in ResetPaths THEN path[3]
                                ELSE Missing]
             tenant_id == IF header = Missing THEN "demo_user" ELSE header
             q == CheckQuota(tenant_id)
         IN  requests' = [requests EXCEPT ![c] =
               IF Exempt(path) \/ ~quota_db
               THEN [r EXCEPT !.pc = "handler"]
               ELSE IF ~q.can_proceed
               THEN [r EXCEPT !.pc = "done",
                              !.checked = tenant_id,
                              !.can_proceed = "no",
                              !.found = usage[tenant_id],
                              !.response = IF q.has_usage THEN 429 ELSE 500]
               ELSE [r EXCEPT !.pc = "handler",
                              !.checked = tenant_id,
                              !.can_proceed = "yes",
                              !.found = usage[tenant_id],
                              !.tenant_id = tenant_id]]
    /\ UNCHANGED <<serviceVars, usage>>

\* A handler that takes whatever the globals of routes hold.
DependenciesUnchecked(modes_set, db_set) == "ok"

\* routes.get_modes()
GetModes(set) == IF set THEN "ok" ELSE "503"

\* routes.get_quota_db()
GetQuotaDb(set) == IF set THEN "ok" ELSE "503"

\* modes = get_modes(); db = get_quota_db(): the first HTTPException leaves
\* the handler.
Dependencies(modes_set, db_set) ==
    IF GetModes(modes_set) # "ok" THEN GetModes(modes_set)
    ELSE GetQuotaDb(db_set)

\* root() and health_check()
HandleSystem(c) ==
    /\ requests[c].pc = "handler"
    /\ requests[c].route = "system"
    /\ requests' = [requests EXCEPT ![c] =
                      [@ EXCEPT !.pc = "done", !.handler = TRUE,
                                !.response = 200]]
    /\ UNCHANGED <<serviceVars, usage>>

\* admin.reset_tenant_usage(tenant_id): reset_usage deletes the usage rows
\* of the tenant.
HandleReset(c) ==
    LET r == requests[c]
        target == r.target
        code == IF ~_quota_db THEN 503
                ELSE IF ~tenants[target].exists THEN 404 ELSE 200
    IN  /\ r.pc = "handler"
        /\ r.route = "reset"
        /\ requests' = [requests EXCEPT ![c] =
                          [r EXCEPT !.pc = "done", !.handler = TRUE,
                                    !.response = code]]
        /\ usage' = IF code = 200 THEN [usage EXCEPT ![target] = NoUsage]
                    ELSE usage
        /\ UNCHANGED serviceVars

\* mark_answer, explain_concept, generate_examples, generate_flashcards: one
\* run of the handler, which holds no await.  modes.mark on None raises
\* AttributeError, answered 500; the mode searches, then asks the LLM, whose
\* failure comes back as result["error"]; the usage is recorded, then
\* check_quota is read for the response.
HandleMode(c) ==
    LET r == requests[c]
        tenant_id == IF r.tenant_id = Missing THEN "demo_user"
                     ELSE r.tenant_id
        answered(code) == [r EXCEPT !.pc = "done", !.handler = TRUE,
                                    !.response = code]
        processed(code) == [answered(code) EXCEPT !.searched = TRUE,
                                                  !.generated = TRUE]
    IN  /\ r.pc = "handler"
        /\ r.route = "mode"
        /\ IF Dependencies(_modes, _quota_db) # "ok"
           THEN /\ requests' = [requests EXCEPT ![c] = answered(503)]
                /\ UNCHANGED usage
           ELSE IF ~_modes
           THEN /\ requests' = [requests EXCEPT ![c] = answered(500)]
                /\ UNCHANGED usage
           ELSE \/ /\ requests' = [requests EXCEPT ![c] = processed(500)]
                   /\ UNCHANGED usage
                \/ \E tokens_used \in 1..MaxTokens :
                     /\ GetUsageInPeriod(tenant_id, 30) + tokens_used
                          <= MaxUsage
                     /\ usage' = [usage EXCEPT ![tenant_id].day =
                                                 @ + tokens_used]
                     /\ requests' = [requests EXCEPT ![c] =
                          [processed(IF CheckQuota(tenant_id).has_usage
                                     THEN 200 ELSE 500)
                             EXCEPT !.recorded = TRUE]]
        /\ UNCHANGED serviceVars

\* The response has been sent.
Respond(c) ==
    /\ requests[c].pc = "done"
    /\ requests' = [requests EXCEPT ![c] = NoRequest]
    /\ UNCHANGED <<serviceVars, usage>>

\* A day passes: the rows of the last day are more than a day old.
DayPasses ==
    /\ quota_db
    /\ \E t \in TenantIds : usage[t].day > 0
    /\ usage' = [t \in TenantIds |->
                   [day |-> 0, month |-> usage[t].month + usage[t].day]]
    /\ UNCHANGED <<serviceVars, requests>>

\* Thirty days pass: the rows are older than every window.
MonthPasses ==
    /\ quota_db
    /\ \E t \in TenantIds : usage[t].month > 0 /\ usage[t].day = 0
    /\ usage' = [t \in TenantIds |-> NoUsage]
    /\ UNCHANGED <<serviceVars, requests>>

NextServer ==
    \/ StartDatabase
    \/ Ingest
    \/ StartRetriever
    \/ StartModes
    \/ Shutdown
    \/ DayPasses
    \/ MonthPasses
    \/ \E c \in Clients :
         \/ Dispatch(c)
         \/ HandleSystem(c)
         \/ HandleReset(c)
         \/ HandleMode(c)
         \/ Respond(c)

SpecServer == InitServer /\ [][NextServer]_vars

\* ------------------------------------------------- claims on the retrievers
\* C25: whatever was constructed, searched, saved and loaded, the vector
\* index of an EmbeddingRetriever holds one entry per chunk of its
\* collection, and no search finds an index id beyond the collection.
C25_IndexEntryPerChunk ==
    retriever = "embedding" =>
        /\ ntotal = Len(chunks)
        /\ status # "IndexError"

\* C20: a constructor called with an empty collection ends in an error and
\* leaves no retriever; no retriever in service has an empty collection or an
\* empty index.
C20_EmptyCollectionRefused ==
    /\ (/\ pc = "returned"
        /\ op \in {"BM25Retriever", "EmbeddingRetriever", "HybridRetriever"}
        /\ chunks = <<>>)
           => status # "ok" /\ retriever = "none"
    /\ retriever # "none" =>
           /\ chunks # <<>>
           /\ retriever \in {"bm25", "hybrid"} => corpus_size >= 1
           /\ retriever \in {"embedding", "hybrid"} => ntotal >= 1

\* C20 witness: HybridRetriever([]) raised from the BM25 constructor.
C20_Witness ==
    /\ pc = "returned" /\ op = "HybridRetriever"
    /\ chunks = <<>> /\ status = "ZeroDivisionError"

\* A call of HybridRetriever.search has returned its list.
SearchReturned == pc = "returned" /\ op = "search" /\ status = "ok"

\* ... and the call asked each retriever for at least one candidate, as
\* every call with the default bm25_k = embedding_k = 20 does.
OverFetched == SearchReturned /\ bm25_k >= 1 /\ embedding_k >= 1

\* The 1-based ranks at which chunk c stands in a result list.
RanksOf(results, c) == {r \in 1..Len(results) : results[r].chunk = c}

\* The RRF contributions the ranks of c in a list stand for: 0 when absent.
Contributions(results, c) ==
    IF RanksOf(results, c) = {} THEN {0}
    ELSE {RRF(r) : r \in RanksOf(results, c)}

\* C1: every returned chunk's fused score is
\* alpha * 1/(60 + r_sem) + (1 - alpha) * 1/(60 + r_lex) for each rank r_lex
\* it has in the lexical list and each rank r_sem it has in the semantic
\* list (0 for a list it is absent from), whatever the corpus size.
C1_FusedScoreIsRankFormula ==
    OverFetched =>
        \A i \in 1..Len(result) :
            \A l \in Contributions(bm25_results, result[i].chunk),
               e \in Contributions(embedding_results, result[i].chunk) :
                result[i].score = alpha[1] * e + (alpha[2] - alpha[1]) * l

\* C4: no pair returned by search has fused score 0, alpha = 0 and alpha = 1
\* included.
C4_NoZeroScoreReturned ==
    OverFetched => \A i \in 1..Len(result) : result[i].score # 0

\* Where chunk c was first seen by the fusion: its lexical rank, or behind
\* the whole lexical list at its first semantic rank.
FirstSeen(c) ==
    IF RanksOf(bm25_results, c) # {}
    THEN CHOOSE r \in RanksOf(bm25_results, c) :
             \A r2 \in RanksOf(bm25_results, c) : r <= r2
    ELSE Len(bm25_results) +
         (CHOOSE r \in RanksOf(embedding_results, c) :
              \A r2 \in RanksOf(embedding_results, c) : r <= r2)

\* C5: the returned list is in non-increasing order of fused score, and two
\* chunks of equal fused score stand in first-seen order: lexical-list
\* chunks by lexical rank, then semantic-only chunks by semantic rank.
C5_SortedWithFirstSeenTies ==
    SearchReturned =>
        \A i, j \in 1..Len(result) :
            i < j =>
                /\ result[i].score >= result[j].score
                /\ result[i].score = result[j].score =>
                       FirstSeen(result[i].chunk) < FirstSeen(result[j].chunk)

\* C5 witness: a returned list holding two chunks of equal, nonzero score.
C5_Witness ==
    /\ SearchReturned
    /\ \E i, j \in 1..Len(result) :
          i < j /\ result[i].score = result[j].score /\ result[i].score > 0

\* C6: a chunk of both lists has exactly one entry in the fusion mapping,
\* holding a contribution of each list, and no chunk occurs twice in the
\* mapping or in the returned list.
C6_OneEntryPerChunk ==
    SearchReturned =>
        /\ \A i, j \in 1..Len(result) :
              i # j => result[i].chunk # result[j].chunk
        /\ \A i, j \in 1..Len(rrf_scores) :
              i # j => rrf_scores[i].chunk # rrf_scores[j].chunk
        /\ \A b \in 1..Len(bm25_results) :
              LET c == bm25_results[b].chunk
              IN  RanksOf(embedding_results, c) # {} =>
                     \E i \in 1..Len(rrf_scores) :
                        /\ rrf_scores[i].chunk = c
                        /\ rrf_scores[i].bm25_rrf \in
                               {RRF(r) : r \in RanksOf(bm25_results, c)}
                        /\ rrf_scores[i].embedding_rrf \in
                               {RRF(r) : r \in RanksOf(embedding_results, c)}

\* C6 witness: a returned chunk that stands in both lists.
C6_Witness ==
    /\ SearchReturned
    /\ \E i \in 1..Len(result) :
          /\ RanksOf(bm25_results, result[i].chunk) # {}
          /\ RanksOf(embedding_results, result[i].chunk) # {}

\* C7: with alpha = 0 and 0 <= top_k <= bm25_k, search returns the chunks
\* of search_bm25_only(query, top_k), in the same order.
C7_AlphaZeroIsBm25Only ==
    (SearchReturned /\ alpha[1] = 0 /\ top_k <= bm25_k) =>
        ChunksOf(result) = ChunksOf(BM25Search(query, top_k))

\* C7 witness: such a call returning two chunks or more in an order that is
\* not the semantic one.
C7_Witness ==
    /\ SearchReturned /\ alpha[1] = 0 /\ top_k <= bm25_k
    /\ Len(result) >= 2
    /\ Len(embedding_results) >= Len(result)
    /\ ChunksOf(result) # ChunksOf(Take(embedding_results, Len(result)))

\* C8: with alpha = 1 and 1 <= top_k <= embedding_k, search returns the
\* chunks of search_embedding_only(query, top_k), in the same order,
\* whatever the corpus size.
C8_AlphaOneIsEmbeddingOnly ==
    (OverFetched /\ alpha[1] = alpha[2] /\ top_k >= 1 /\ top_k <= embedding_k) =>
        ChunksOf(result) = ChunksOf(EmbeddingSearch(query, top_k))

ScoreOf(c) == GetScores(query, Len(chunks))[c + 1]

\* Chunk c ranks before chunk d: a higher score, or the same score and an
\* earlier place in the collection.
RanksBefore(c, d) ==
    \/ ScoreOf(c) > ScoreOf(d)
    \/ ScoreOf(c) = ScoreOf(d) /\ c < d

Bm25Returned == pc = "returned" /\ op = "search_bm25_only" /\ status = "ok"

\* C11: BM25Retriever.search returns the first top_k chunks of the corpus in
\* descending order of score, chunks of equal score in collection order,
\* each with its score.
C11_Bm25TopKStable ==
    Bm25Returned =>
        /\ Len(result) = Min(top_k, Len(chunks))
        /\ \A i \in 1..Len(result) : result[i].score = ScoreOf(result[i].chunk)
        /\ \A i, j \in 1..Len(result) :
              i < j => RanksBefore(result[i].chunk, result[j].chunk)
        /\ \A c \in 0..(Len(chunks) - 1) :
              (\A i \in 1..Len(result) : result[i].chunk # c) =>
                  \A i \in 1..Len(result) : RanksBefore(result[i].chunk, c)

\* C11 witness: a truncated list in which two chunks of equal score stand
\* behind a chunk of higher score and a later place.
C11_Witness ==
    /\ Bm25Returned
    /\ Len(result) >= 3
    /\ result[1].chunk > result[2].chunk
    /\ result[2].score = result[3].score

\* C12: a query without word tokens makes BM25Retriever.search return the
\* first min(top_k, n) chunks in insertion order, each with score 0.
C12_NoTokensInsertionOrder ==
    (Bm25Returned /\ query.tokens = 0) =>
        result = [i \in 1..Min(top_k, Len(chunks)) |->
                     [chunk |-> chunks[i], score |-> 0]]

\* C12 witness: such a query against three chunks, all three returned.
C12_Witness ==
    /\ Bm25Returned /\ query.tokens = 0
    /\ Len(chunks) = 3 /\ Len(result) = 3

\* A call of search_with_threshold, of either retriever, has returned.
ThresholdReturned ==
    /\ pc = "returned"
    /\ op \in {"bm25_search_with_threshold", "embedding_search_with_threshold"}
    /\ status = "ok"

\* What search(query, top_k=top_k) of the same retriever returns.
PlainSearch ==
    IF op = "bm25_search_with_threshold" THEN BM25Search(query, top_k)
    ELSE IF top_k >= 1 THEN EmbeddingSearch(query, top_k) ELSE <<>>

\* The places of the plain results that reach threshold t.
Reaching(t) == {i \in 1..Len(PlainSearch) : PlainSearch[i].score >= t}

\* C13: search_with_threshold(query, t, k) returns exactly the results of
\* search(query, top_k=k) whose score is >= t, in the same relative order:
\* its j-th result is the j-th plain result that reaches t.
C13_ThresholdIsFilteredSearch ==
    ThresholdReturned =>
        /\ Len(result) = Cardinality(Reaching(threshold))
        /\ \A j \in 1..Len(result) :
              \E i \in Reaching(threshold) :
                 /\ Cardinality({h \in Reaching(threshold) : h <= i}) = j
                 /\ result[j] = PlainSearch[i]

\* C13 witness: a result that sits exactly on the threshold is kept, one
\* before it in the plain list and one after it are dropped or kept apart.
C13_Witness ==
    /\ ThresholdReturned
    /\ Len(PlainSearch) >= 3
    /\ Len(result) >= 1 /\ Len(result) < Len(PlainSearch)
    /\ \E j \in 1..Len(result) : result[j].score = threshold

\* C14: raising the threshold never adds results: with the query and top_k
\* of the call, every threshold t2 >= threshold returns no more results.
C14_ThresholdMonotone ==
    ThresholdReturned =>
        \A t2 \in Thresholds :
            threshold <= t2 =>
                Len(FilterByThreshold(PlainSearch, t2)) <= Len(result)

\* C14 witness: a call whose list is strictly longer than the list a higher
\* threshold gives, which is not empty either.
C14_Witness ==
    /\ ThresholdReturned
    /\ \E t2 \in Thresholds :
          /\ threshold < t2
          /\ Len(FilterByThreshold(PlainSearch, t2)) < Len(result)
          /\ Len(FilterByThreshold(PlainSearch, t2)) >= 1

\* A call of HybridRetriever.search has returned, and it was made with the
\* arguments of the call on record.
Repeated ==
    /\ SearchReturned
    /\ first.made
    /\ query = first.query /\ top_k = first.top_k /\ alpha = first.alpha
    /\ bm25_k = MaxK /\ embedding_k = MaxK

Alone(c) ==
    IF c.op = "search"
    THEN Truncate(SortByScore(HybridResults(
             FuseEmbedding(FuseBM25(<<>>, BM25Search(c.query, MaxK), 1),
                           EmbeddingSearch(c.query, MaxK), 1),
             c.alpha)), MaxK)
    ELSE Direct(c)

\* C16: whatever the interleaving of the threads' search calls, the chunk
\* collection and the two indices stay as they were built, and every call
\* returns the list it returns when it runs alone.
C16_ConcurrentSearchesIsolated ==
    /\ chunks = Range(Len(chunks))
    /\ corpus_size = Len(chunks)
    /\ ntotal = Len(chunks)
    /\ \A t \in Threads :
          calls[t].pc = "returned" => calls[t].result = Alone(calls[t])

\* C16 witness: a hybrid search returned two chunks or more after another
\* thread, still inside a hybrid search for another query, acted during it.
C16_Witness ==
    \E t, u \in Threads :
        /\ t # u
        /\ calls[t].pc = "returned" /\ calls[t].op = "search"
        /\ calls[t].raced
        /\ Len(calls[t].result) >= 2
        /\ calls[u].pc = "fused" /\ calls[u].raced
        /\ calls[u].query # calls[t].query

\* C21: for every query, one without word tokens included, a call of
\* HybridRetriever.search that asks the vector index for at least one
\* neighbour raises nothing and returns a ranked list: at most top_k pairs,
\* each a chunk of the collection with a score, in descending score order.
C21_DegenerateQueryReturnsList ==
    (pc = "returned" /\ op = "search" /\ embedding_k >= 1) =>
        /\ status = "ok"
        /\ Len(result) <= top_k
        /\ \A i \in 1..Len(result) :
              \E j \in 1..Len(chunks) : result[i].chunk = chunks[j]
        /\ \A i, j \in 1..Len(result) :
              i < j => result[i].score >= result[j].score

\* C21 witness: a query without word tokens got a list of two chunks or
\* more.
C21_Witness ==
    SearchReturned /\ embedding_k >= 1 /\ query.tokens = 0 /\ Len(result) >= 2

\* The search of the vector index alone has returned.
EmbeddingReturned ==
    pc = "returned" /\ op = "search_embedding_only" /\ status = "ok"

\* C27: for top_k = k >= 1, EmbeddingRetriever.search returns at most
\* min(k, n) pairs over n indexed chunks, and no chunk in two of them.
C27_NoPaddingMappedToChunk ==
    (EmbeddingReturned /\ top_k >= 1) =>
        /\ Len(result) <= Min(top_k, Len(chunks))
        /\ \A i, j \in 1..Len(result) :
              i # j => result[i].chunk # result[j].chunk

\* The chunks of the collection whose fused score is not 0: those some list
\* with a nonzero weight holds.
NonzeroFused ==
    {c \in {chunks[i] : i \in 1..Len(chunks)} :
        \/ alpha[1] # 0 /\ RanksOf(embedding_results, c) # {}
        \/ alpha[1] # alpha[2] /\ RanksOf(bm25_results, c) # {}}

\* C10: search returns exactly top_k results unless fewer than top_k chunks
\* have nonzero (fused) relevance, and then exactly those chunks.
C10_ExactlyTopKOrAllRelevant ==
    OverFetched =>
        IF Cardinality(NonzeroFused) >= top_k
        THEN Len(result) = top_k
        ELSE /\ Len(result) = Cardinality(NonzeroFused)
             /\ {result[i].chunk : i \in 1..Len(result)} = NonzeroFused

\* ------------------------------------------------------------------ chunker
MaxLen == 5
MaxBudget == 3
MaxDocLen == 3

\* The characters of a text: a letter, a space, a line break, a tab and a
\* full stop.
Chars == {"a", " ", "\n", "\t", "."}

\* What str.strip() removes.
Whitespace == {" ", "\n", "\t"}

\* The texts chunk_text is given.
Texts == UNION {[1..n -> Chars] : n \in 0..MaxLen}

\* separators = ["\n\n", "\n", ". ", " ", ""]
DefaultSeparators == << <<"\n", "\n">>, <<"\n">>, <<".", " ">>, <<" ">>, <<>> >>

\* s[i:], i 0-based
From(s, i) == SubSeq(s, i + 1, Len(s))

\* s.startswith(prefix)
StartsWith(s, prefix) ==
    Len(s) >= Len(prefix) /\ SubSeq(s, 1, Len(prefix)) = prefix

RECURSIVE LStrip(_)
LStrip(s) ==
    IF s # <<>> /\ Head(s) \in Whitespace THEN LStrip(Tail(s)) ELSE s

RECURSIVE RStrip(_)
RStrip(s) ==
    IF s # <<>> /\ s[Len(s)] \in Whitespace
    THEN RStrip(SubSeq(s, 1, Len(s) - 1))
    ELSE s

\* str.strip()
Strip(s) == RStrip(LStrip(s))

\* not s.strip()
Blank(s) == Strip(s) = <<>>

RECURSIVE Split(_, _)
\* str.split(sep) for a non-empty sep: cut at each occurrence, left to right.
Split(s, sep) ==
    IF \E i \in 0..(Len(s) - Len(sep)) : StartsWith(From(s, i), sep)
    THEN LET i == CHOOSE i \in 0..(Len(s) - Len(sep)) :
                     /\ StartsWith(From(s, i), sep)
                     /\ \A j \in 0..(i - 1) : ~StartsWith(From(s, j), sep)
         IN  <<SubSeq(s, 1, i)>> \o Split(From(s, i + Len(sep)), sep)
    ELSE <<s>>

\* The tokens of the encoding that span more than one character.  cl100k_base
\* is a byte-pair encoding: every single character is a token, a paragraph
\* break is one token, and a space is glued to the word that follows it, the
\* vocabulary holding space-prefixed words as one token whose bare form takes
\* several (here " aa" against "a", "a").
MergedTokens == { <<"\n", "\n">>, <<" ", "a", "a">>, <<" ", "a">> }

RECURSIVE TokenCount(_)
\* len(encoding.encode(s)): the longest token at each position.
TokenCount(s) ==
    IF s = <<>> THEN 0
    ELSE LET fits == {t \in MergedTokens : StartsWith(s, t)}
             step == IF fits = {} THEN 1
                     ELSE CHOOSE n \in {Len(t) : t \in fits} :
                              \A t \in fits : Len(t) <= n
         IN  1 + TokenCount(From(s, step))

\* The raise of range(0, len(text), 0), as the one element of the list.
ValueError == [text |-> <<"ValueError">>, window |-> TRUE]

\* [text[i:i+chunk_size] for i in range(0, len(text), chunk_size)]
\* Each piece is marked as a window of the empty-string separator.
Windows(s, size) ==
    IF size = 0 THEN <<ValueError>>
    ELSE LET count == (Len(s) + size - 1) \div size
         IN  [w \in 1..count |->
                 [text |-> SubSeq(s, (w - 1) * size + 1, Min(w * size, Len(s))),
                  window |-> TRUE]]

\* A budget test that is off by one.
FitsBudgetStrict(tokens, size) == tokens < size

\* if tokens <= chunk_size
FitsBudget(tokens, size) == tokens <= size

RECURSIVE SplitRecursive(_, _, _)
RECURSIVE SplitEach(_, _, _)
\* The loop of _split_recursive over splits.
SplitEach(splits, remaining_seps, size) ==
    IF splits = <<>> THEN <<>>
    ELSE LET split == Head(splits)
             here == IF Blank(split) THEN <<>>
                     ELSE IF FitsBudget(TokenCount(split), size)
                          THEN <<[text |-> split, window |-> FALSE]>>
                          ELSE SplitRecursive(split, remaining_seps, size)
         IN  here \o SplitEach(Tail(splits), remaining_seps, size)

\* chunk_text._split_recursive(text, seps)
SplitRecursive(s, seps, size) ==
    IF seps = <<>> \/ Blank(s)
    THEN IF Blank(s) THEN <<>> ELSE <<[text |-> s, window |-> FALSE]>>
    ELSE IF Head(seps) # <<>>
         THEN SplitEach(Split(s, Head(seps)), Tail(seps), size)
         ELSE Windows(s, size)

\* A loop that keeps the empty pieces too.
KeepAll(stripped) == TRUE

\* if chunk_text:
Keep(stripped) == stripped # <<>>

\* An id that does not follow the enumeration.
ChunkIdConstant(i) == 0

\* "chunk_id": i
ChunkId(i) == i

RECURSIVE BuildChunks(_, _, _)
\* The loop of chunk_text over raw_chunks from index i (0-based) on, with
\* the running position.
BuildChunks(raw, i, position) ==
    IF i >= Len(raw) THEN <<>>
    ELSE LET stripped == Strip(raw[i + 1].text)
         IN  IF Keep(stripped)
             THEN <<[chunk_id |-> ChunkId(i),
                     text |-> stripped,
                     token_count |-> TokenCount(stripped),
                     start_pos |-> position,
                     end_pos |-> position + Len(stripped)]>>
                  \o BuildChunks(raw, i + 1, position + Len(stripped))
             ELSE BuildChunks(raw, i + 1, position)

\* Whether the call of _split_recursive raised.
Raised(raw) == \E i \in 1..Len(raw) : raw[i] = ValueError

\* No retriever is built; nothing has been chunked.
InitChunker ==
    /\ chunks = <<>>
    /\ retriever = "none"
    /\ corpus_size = 0
    /\ ntotal = 0
    /\ disk = 0
    /\ Offline
    /\ Idle

\* chunk_text(text, chunk_size) with the default separators
ChunkText ==
    /\ pc = "idle"
    /\ \E t \in Texts, size \in 0..MaxBudget :
         LET raw == SplitRecursive(t, DefaultSeparators, size)
         IN  /\ text' = t
             /\ chunk_size' = size
             /\ raw_chunks' = raw
             /\ status' = IF Raised(raw) THEN "ValueError" ELSE "ok"
             /\ result' = IF Raised(raw) THEN <<>> ELSE BuildChunks(raw, 0, 0)
    /\ op' = "chunk_text"
    /\ pc' = "returned"
    /\ UNCHANGED <<chunks, indexVars, outerVars, historyVars, threadVars,
                   searchVars, document>>

\* The documents chunk_document is given: a text, and a filename and
\* metadata or neither key.
Documents ==
    [text : UNION {[1..n -> Chars] : n \in 0..MaxDocLen},
     filename : {Missing, "notes.txt"},
     metadata : {Missing, "meta"}]

\* A lookup that forgets the default.
DictGetNoDefault(value, default) == value

\* dict.get(key, default)
DictGet(value, default) == IF value = Missing THEN default ELSE value

\* for chunk in chunks: chunk['filename'] = ...; chunk['metadata'] = ...
AddDocumentFields(cs, doc) ==
    [i \in 1..Len(cs) |->
        [chunk_id |-> cs[i].chunk_id,
         text |-> cs[i].text,
         token_count |-> cs[i].token_count,
         start_pos |-> cs[i].start_pos,
         end_pos |-> cs[i].end_pos,
         filename |-> DictGet(doc.filename, "unknown"),
         metadata |-> DictGet(doc.metadata, "{}")]]

\* chunk_document(document, chunk_size)
ChunkDocument ==
    /\ pc = "idle"
    /\ \E doc \in Documents, size \in 0..MaxBudget :
         LET raw == SplitRecursive(doc.text, DefaultSeparators, size)
         IN  /\ document' = doc
             /\ text' = doc.text
             /\ chunk_size' = size
             /\ raw_chunks' = raw
             /\ status' = IF Raised(raw) THEN "ValueError" ELSE "ok"
             /\ result' = IF Raised(raw) THEN <<>>
                          ELSE AddDocumentFields(BuildChunks(raw, 0, 0), doc)
    /\ op' = "chunk_document"
    /\ pc' = "returned"
    /\ UNCHANGED <<chunks, indexVars, outerVars, historyVars, threadVars,
                   searchVars>>

NextChunker == ChunkText \/ ChunkDocument \/ Return

SpecChunker == InitChunker /\ [][NextChunker]_vars

\* -------------------------------------------------- claims on the chunker
\* A call of chunk_text has returned its chunks.
ChunkTextReturned == pc = "returned" /\ op = "chunk_text" /\ status = "ok"

\* C2: every chunk chunk_text returns has token_count <= chunk_size, or is
\* a window cut by the final empty-string separator.
C2_ChunkWithinBudget ==
    ChunkTextReturned =>
        \A i \in 1..Len(result) :
            \/ result[i].token_count <= chunk_size
            \/ raw_chunks[result[i].chunk_id + 1].window

\* C3: a text of at most chunk_size tokens yields exactly one chunk, the
\* trimmed text, whatever separators it holds.  (Stated for the texts that
\* hold a non-whitespace character; the others yield no chunk at all.)
C3_SmallTextIsOneChunk ==
    (ChunkTextReturned /\ TokenCount(text) <= chunk_size /\ ~Blank(text)) =>
        /\ Len(result) = 1
        /\ result[1].text = Strip(text)

\* s holds a paragraph break.
HasParagraphBreak(s) ==
    \E i \in 0..(Len(s) - 2) : StartsWith(From(s, i), <<"\n", "\n">>)

\* C3 as amended: a text of at most chunk_size tokens that holds a
\* non-whitespace character and no paragraph break yields exactly one chunk,
\* the trimmed text.
C3_SmallParagraphIsOneChunk ==
    (/\ ChunkTextReturned
     /\ TokenCount(text) <= chunk_size
     /\ ~Blank(text)
     /\ ~HasParagraphBreak(text)) =>
        /\ Len(result) = 1
        /\ result[1].text = Strip(text)

\* C3 witness: such a text that holds a line break, a sentence end or a
\* space between words and is trimmed on return.
C3_Witness ==
    /\ ChunkTextReturned
    /\ TokenCount(text) <= chunk_size
    /\ ~Blank(text)
    /\ ~HasParagraphBreak(text)
    /\ Len(Split(Strip(text), <<" ">>)) > 1
    /\ Strip(text) # text
    /\ Len(result) = 1

\* A call of chunk_text or chunk_document has returned its chunks.
ChunkerReturned ==
    pc = "returned" /\ op \in {"chunk_text", "chunk_document"} /\ status = "ok"

\* C17: no chunk chunk_text or chunk_document returns has a text that is
\* empty after trimming whitespace.
C17_NoEmptyChunk ==
    ChunkerReturned =>
        \A i \in 1..Len(result) : Strip(result[i].text) # <<>>

\* C17 witness: _split_recursive handed over a piece of whitespace only, and
\* the call returned chunks without it.
C17_Witness ==
    /\ ChunkerReturned
    /\ op = "chunk_document"
    /\ \E i \in 1..Len(raw_chunks) : Blank(raw_chunks[i].text)
    /\ Len(result) >= 1

\* C18: for a positive chunk_size chunk_text does not raise, returns no
\* chunk exactly when the text is empty or whitespace only, and every chunk
\* carries its text and the token count of that text.
C18_EmptyIffBlank ==
    (pc = "returned" /\ op = "chunk_text" /\ chunk_size >= 1) =>
        /\ status = "ok"
        /\ result = <<>> <=> Blank(text)
        /\ \A i \in 1..Len(result) :
              /\ result[i].text # <<>>
              /\ result[i].token_count = TokenCount(result[i].text)

\* C19: the chunk_id values of one chunk_text call ascend strictly along the
\* returned list, so no two are equal.
C19_ChunkIdsAscend ==
    ChunkTextReturned =>
        \A i, j \in 1..Len(result) :
            i < j => result[i].chunk_id < result[j].chunk_id

\* C19 witness: three chunks, the ids leaving out the place of a piece that
\* was dropped.
C19_Witness ==
    /\ ChunkTextReturned
    /\ Len(result) >= 3
    /\ result[Len(result)].chunk_id >= Len(result)

\* What chunk_text returns for the text and the budget of the call.
ChunkTextResult ==
    BuildChunks(SplitRecursive(text, DefaultSeparators, chunk_size), 0, 0)

\* C23: every chunk chunk_document returns carries the document's filename
\* and metadata, 'unknown' and the empty mapping for a document without
\* them, and is otherwise the chunk chunk_text returns at that place for the
\* same text and budget.
C23_DocumentFieldsOnly ==
    (pc = "returned" /\ op = "chunk_document" /\ status = "ok") =>
        /\ Len(result) = Len(ChunkTextResult)
        /\ \A i \in 1..Len(result) :
              /\ result[i].filename =
                     (IF document.filename = Missing THEN "unknown"
                      ELSE document.filename)
              /\ result[i].metadata =
                     (IF document.metadata = Missing THEN "{}"
                      ELSE document.metadata)
              /\ [f \in DOMAIN ChunkTextResult[i] |-> result[i][f]]
                     = ChunkTextResult[i]
              /\ DOMAIN result[i] =
                     DOMAIN ChunkTextResult[i] \cup {"filename", "metadata"}

\* C23 witness: a document without filename and with metadata, cut into two
\* chunks or more.
C23_Witness ==
    /\ pc = "returned" /\ op = "chunk_document" /\ status = "ok"
    /\ document.filename = Missing /\ document.metadata # Missing
    /\ Len(result) >= 2

\* The characters of s that str.strip() would never remove, in order.
NonWhitespace(s) == SelectSeq(s, LAMBDA c : c \notin Whitespace)

RECURSIVE JoinTexts(_)
\* The texts of the chunks, one after the other.
JoinTexts(cs) ==
    IF cs = <<>> THEN <<>> ELSE Head(cs).text \o JoinTexts(Tail(cs))

\* C30: for a positive chunk_size, the non-whitespace characters of the
\* chunks chunk_text returns, in chunk order, are the non-whitespace
\* characters of the text.
C30_NoContentLost ==
    (ChunkTextReturned /\ chunk_size >= 1) =>
        NonWhitespace(JoinTexts(result)) = NonWhitespace(text)

MatchReturned ==
    pc = "returned" /\ op = "match_metadata_to_documents"

\* The rows of metadata whose filename is that of doc.
RowsOf(doc) ==
    {j \in 1..Len(metadata) : metadata[j].filename = doc.filename}

\* C22: after match_metadata_to_documents(documents, metadata), where every
\* row has a filename, the call has returned the documents, each with a
\* metadata record: a row whose filename is the document's when there is
\* such a row, the empty record otherwise; a document without a row raises
\* nothing.
C22_MetadataByFilename ==
    (MatchReturned /\ \A j \in 1..Len(metadata) : metadata[j].filename # Missing)
        => /\ status = "ok"
           /\ Len(result) = Len(documents)
           /\ \A i \in 1..Len(documents) :
                /\ result[i].filename = documents[i].filename
                /\ result[i].text = documents[i].text
                /\ IF RowsOf(documents[i]) = {}
                   THEN result[i].metadata = EmptyRecord
                   ELSE \E j \in RowsOf(documents[i]) :
                          result[i].metadata = metadata[j]

\* A call with a document that has a row after a row of another file, and a
\* document that has none.
C22_Witness ==
    /\ MatchReturned /\ status = "ok"
    /\ Len(documents) = 2 /\ Len(metadata) = 2
    /\ RowsOf(documents[1]) = {2}
    /\ RowsOf(documents[2]) = {}
    /\ result[1].metadata = metadata[2]
    /\ result[2].metadata = EmptyRecord

\* -------------------------------------------------- claims on the API server
\* The middleware has checked the tenant of request r, the tenant has a
\* row, and its usage of the last day had reached a finite daily limit, or
\* that of the last thirty days a finite monthly limit.
OverQuota(r) ==
    /\ r.checked # Missing
    /\ tenants[r.checked].exists
    /\ \/ /\ tenants[r.checked].daily_token_limit # -1
          /\ r.found.day >= tenants[r.checked].daily_token_limit
       \/ /\ tenants[r.checked].monthly_token_limit # -1
          /\ r.found.day + r.found.month
               >= tenants[r.checked].monthly_token_limit

\* C24: a request to a path that is not exempt, by a tenant whose usage has
\* reached a finite daily or monthly limit, is answered 429 by the
\* middleware: its handler is not called, nothing is searched or generated
\* for it, and no usage is recorded for it.
C24_OverQuotaRefusedBeforeHandler ==
    \A c \in Clients :
        OverQuota(requests[c])
            => /\ requests[c].response = 429
               /\ ~requests[c].handler
               /\ ~requests[c].searched
               /\ ~requests[c].generated
               /\ ~requests[c].recorded

\* C26: a request that has searched found the hybrid retriever built, over
\* all the chunks, and the modes set by a startup that has run to its end; a
\* mode request handled while the modes are not set is answered 503 and has
\* searched nothing.
C26_SearchOnlyAfterConstruction ==
    \A c \in Clients :
        /\ requests[c].searched
             => /\ retriever = "hybrid"
                /\ corpus_size = Len(chunks) /\ ntotal = Len(chunks)
                /\ _modes
                /\ startup = "serving"
        /\ (requests[c].route = "mode" /\ requests[c].handler /\ ~_modes)
             => /\ requests[c].response = 503
                /\ ~requests[c].searched

\* A mode request answered from a search, next to one the middleware let
\* through that has not reached its handler yet.
C26_Witness ==
    /\ lifespan = "on" /\ retriever = "hybrid"
    /\ \E c, d \in Clients :
         /\ requests[c].route = "mode" /\ requests[c].searched
         /\ requests[c].response = 200
         /\ requests[d].route = "mode" /\ requests[d].pc = "handler"

\* C28: while the usage of the last day of a tenant with a finite daily
\* limit is at or over that limit, no step records usage for the tenant.
C28_NoUsageRecordedAtDailyLimit ==
    [][\A t \in TenantIds :
         (/\ tenants[t].exists
          /\ tenants[t].daily_token_limit # -1
          /\ usage[t].day >= tenants[t].daily_token_limit)
             => usage'[t].day <= usage[t].day]_vars

\* C29: a request for which check_quota said can_proceed = False is answered
\* 429.
C29_RefusalIs429 ==
    \A c \in Clients :
        requests[c].can_proceed = "no" => requests[c].response = 429

====
